---- MODULE Spec2Model ----
(***************************************************************************)
(* The chat front-end of geo-LLM: the message-list controller (App.tsx),   *)
(* its input control (QueryInput.tsx), the transport adapter               *)
(* (services/api.ts) and the typing simulator, together with the older     *)
(* single-response variant of the controller.                              *)
(*                                                                         *)
(* A string is a sequence of one-character strings.  The browser is one    *)
(* cooperative event loop: every action below is one task of that loop (a  *)
(* DOM event handler, the continuation of an awaited promise, or one       *)
(* firing of a setInterval timer) and runs to completion.                  *)
(***************************************************************************)
EXTENDS Integers, Sequences, FiniteSets, TLC

\* ------------------------------------------------------------------ bounds
\* MaxSubmits: accepted submits in one behaviour.  MaxTextLen: length of the
\* longest answer the backend sends.  MaxClock: the last millisecond the clock
\* reaches.  MaxRevealLen: length of the longest text given to the typing
\* simulator when it is run on its own.
MaxSubmits == 2
MaxTextLen == 1
MaxClock == 2
MaxRevealLen == 3

\* ------------------------------------------------------------------ inputs
\* The answer of length n: "", "a", "ab", "aba", ...
AnswerText(n) == [i \in 1..n |-> IF i % 2 = 1 THEN "a" ELSE "b"]
Texts == {AnswerText(n) : n \in 0..MaxTextLen}

\* Every text over {a, b} of at most MaxRevealLen characters.
RevealTexts == UNION {[1..n -> {"a", "b"}] : n \in 0..MaxRevealLen}

\* Bodies of a non-2xx response.
ErrorBodies == {<<>>, <<"e">>}

\* What the user can have typed into the textarea.
Drafts == {<<>>, <<" ">>, <<" ", "q", " ">>}

\* Fixed message literals; each stands for the whole literal text.
ServerErrorText == <<"[server error]">>
FetchFailedText == <<"[failed to fetch]">>
BackendUnreachableText == <<"[backend unreachable]">>

\* What the backend (or the network) does with one POST /chat.
Responses ==
    [kind : {"ok"}, body : Texts]
      \cup [kind : {"notok"}, body : ErrorBodies]
      \cup {[kind |-> "network", body |-> <<>>]}

\* ------------------------------------------------------------------- state
VARIABLES
    messages,            \* App: useState<Message[]>
    loading,             \* App: useState(false)
    abortControllerRef,  \* App: useRef; 0 is null, r is the controller of request r
    input,               \* QueryInput: useState('')
    mounted,             \* whether <App/> is still in the tree
    now,                 \* the last value Date.now() returned
    reqs,                \* one record per running/finished handleSendMessage call
    response,            \* single-response App: useState('')
    input1,              \* single-response App: useState('') (the draft)
    loading1,            \* single-response App: useState(false)
    calls,               \* single-response App: one record per handleSubmit call
    timer                \* one simulateTyping call run on its own

vars == <<messages, loading, abortControllerRef, input, mounted, now, reqs,
          response, input1, loading1, calls, timer>>

chatVars == <<messages, loading, abortControllerRef, input, mounted, now, reqs>>
singleVars == <<response, input1, loading1, calls>>

\* ----------------------------------------------------------- pure helpers
RECURSIVE trimStart(_)
trimStart(s) ==
    IF s = <<>> THEN s
    ELSE IF Head(s) = " " THEN trimStart(Tail(s)) ELSE s

RECURSIVE trimEnd(_)
trimEnd(s) ==
    IF s = <<>> THEN s
    ELSE IF s[Len(s)] = " " THEN trimEnd(SubSeq(s, 1, Len(s) - 1)) ELSE s

\* String.prototype.trim
trim(s) == trimEnd(trimStart(s))

\* text.slice(0, n)
slice0(text, n) == SubSeq(text, 1, n)

\* services/api.ts: how one HTTP exchange settles the promise of sendChatMessage.
\* No AbortSignal is passed to fetch, so the call never rejects with AbortError.
sendChatMessage(resp) ==
    IF resp.kind = "network"
    THEN [settled |-> "rejected", name |-> "TypeError",
          message |-> FetchFailedText, value |-> <<>>]
    ELSE IF resp.kind = "notok"
    THEN [settled |-> "rejected", name |-> "Error",
          message |-> IF resp.body # <<>> THEN resp.body ELSE ServerErrorText,
          value |-> <<>>]
    ELSE [settled |-> "fulfilled", name |-> "", message |-> <<>>,
          value |-> resp.body]

\* prev.map(msg => msg.id === id ? {...msg, content} : msg)
mapContent(prev, id, content) ==
    [i \in 1..Len(prev) |->
        IF prev[i].id = id THEN [prev[i] EXCEPT !.content = content] ELSE prev[i]]

\* React drops a state update of a component that is no longer mounted.
setState(app, old, new) == IF app.mounted THEN new ELSE old

\* simulateTyping with onProgress(text.slice(0, index)): one character late.
simulateTypingLate(text, index) ==
    IF index < Len(text)
    THEN [call |-> "onProgress", partial |-> slice0(text, index),
          index |-> index + 1, interval |-> "running"]
    ELSE [call |-> "onComplete", partial |-> <<>>,
          index |-> index, interval |-> "cleared"]

\* The body of the setInterval callback of simulateTyping, for a timer whose
\* closure holds `text` and `index`.
simulateTyping(text, index) ==
    IF index < Len(text)
    THEN [call |-> "onProgress", partial |-> slice0(text, index + 1),
          index |-> index + 1, interval |-> "running"]
    ELSE [call |-> "onComplete", partial |-> <<>>,
          index |-> index, interval |-> "cleared"]

\* ------------------------------------------------- message-list controller
\* The controller's state as one value, so that handlers are functions of it.
App ==
    [messages |-> messages, loading |-> loading,
     abortControllerRef |-> abortControllerRef, mounted |-> mounted,
     now |-> now, reqs |-> reqs]

\* handleSendMessage from its guard to its await (lines 38-60).  d is the
\* number of milliseconds the clock advances between the two Date.now() reads.
startRequest(app, query, d) ==
    LET userMessage ==
            [id |-> app.now, role |-> "user", content |-> query,
             timestamp |-> app.now]
        t == app.now + d
        assistantMessageId == t + 1
        placeholder ==
            [id |-> assistantMessageId, role |-> "assistant",
             content |-> <<>>, timestamp |-> t]
        req ==
            [assistantMessageId |-> assistantMessageId, query |-> query,
             call |-> "pending", aborted |-> FALSE,
             fullAnswer |-> <<>>, error |-> <<>>,
             interval |-> "none", index |-> 0, currentContent |-> <<>>,
             onProgressCalls |-> <<>>, onCompleteCalls |-> 0]
    IN [app EXCEPT
          !.messages = Append(Append(@, userMessage), placeholder),
          !.loading = TRUE,
          !.abortControllerRef = Len(app.reqs) + 1,
          !.reqs = Append(@, req),
          !.now = t]

\* handleSendMessage without its `if (loading) return`.
handleSendMessageUnguarded(app, query, d) == startRequest(app, query, d)

\* handleSendMessage up to its await.
handleSendMessage(app, query, d) ==
    IF app.loading THEN app ELSE startRequest(app, query, d)

\* handleSendMessage of request r from the point where its await settles
\* with `result` to the end of its finally block.
handleSendMessageSettled(app, r, result) ==
    LET id == app.reqs[r].assistantMessageId
        finally(a) ==
            [a EXCEPT !.loading = setState(a, a.loading, FALSE),
                      !.abortControllerRef = 0]
    IN
    IF result.settled = "fulfilled"
    THEN finally([app EXCEPT
            !.reqs[r].call = "fulfilled",
            !.reqs[r].fullAnswer = result.value,
            !.reqs[r].interval = "running",
            !.reqs[r].index = 0,
            !.reqs[r].currentContent = <<>>])
    ELSE IF result.name = "AbortError"
    THEN finally([app EXCEPT !.reqs[r].call = "aborted"])
    ELSE
      LET errorMessage ==
              IF result.message # <<>> THEN result.message
              ELSE BackendUnreachableText
      IN finally([app EXCEPT
            !.reqs[r].call = "rejected",
            !.reqs[r].error = result.message,
            !.messages = setState(app, @, mapContent(@, id, errorMessage))])

\* One firing of the interval timer that request r started: simulateTyping's
\* callback together with the onProgress / onComplete closures it calls.
typingTick(app, r) ==
    LET q == app.reqs[r]
        s == simulateTyping(q.fullAnswer, q.index)
    IN
    IF s.call = "onProgress"
    THEN [app EXCEPT
            !.reqs[r].index = s.index,
            !.reqs[r].currentContent = s.partial,
            !.reqs[r].onProgressCalls = Append(@, s.partial),
            !.messages =
                setState(app, @, mapContent(@, q.assistantMessageId, s.partial))]
    ELSE [app EXCEPT
            !.reqs[r].interval = s.interval,
            !.reqs[r].onCompleteCalls = @ + 1,
            !.messages =
                setState(app, @,
                         mapContent(@, q.assistantMessageId, q.currentContent))]

handleClearChat(app) == [app EXCEPT !.messages = <<>>]

\* The cleanup of the mount effect.
unmountEffect(app) ==
    IF app.abortControllerRef # 0
    THEN [app EXCEPT !.reqs[app.abortControllerRef].aborted = TRUE,
                     !.mounted = FALSE]
    ELSE [app EXCEPT !.mounted = FALSE]

\* QueryInput.handleSubmit calling onSubmit(input) instead of onSubmit(trimmed).
handleSubmitUntrimmed(app, draft, disabled, d) ==
    LET trimmed == trim(draft)
    IN IF trimmed # <<>> /\ ~disabled
       THEN [app |-> handleSendMessage(app, draft, d), input |-> <<>>]
       ELSE [app |-> app, input |-> draft]

\* QueryInput.handleSubmit with draft `draft` and prop `disabled`; onSubmit is
\* the controller's handleSendMessage.
handleSubmit(app, draft, disabled, d) ==
    LET trimmed == trim(draft)
    IN IF trimmed # <<>> /\ ~disabled
       THEN [app |-> handleSendMessage(app, trimmed, d), input |-> <<>>]
       ELSE [app |-> app, input |-> draft]

\* ----------------------------------------------------------------- actions
Init ==
    /\ messages = <<>>
    /\ loading = FALSE
    /\ abortControllerRef = 0
    /\ input = <<>>
    /\ mounted = TRUE
    /\ now = 0
    /\ reqs = <<>>
    /\ response = <<>>
    /\ input1 = <<>>
    /\ loading1 = FALSE
    /\ calls = <<>>
    /\ timer = [text |-> <<>>, index |-> 0, interval |-> "none",
                onProgressCalls |-> <<>>, onCompleteCalls |-> 0]

Commit(app) ==
    /\ messages' = app.messages
    /\ loading' = app.loading
    /\ abortControllerRef' = app.abortControllerRef
    /\ mounted' = app.mounted
    /\ now' = app.now
    /\ reqs' = app.reqs

\* The textarea's onChange; a disabled textarea takes no input.
OnChange ==
    /\ mounted
    /\ ~loading
    /\ \E v \in Drafts : input' = v
    /\ UNCHANGED <<messages, loading, abortControllerRef, mounted, now, reqs>>
    /\ UNCHANGED <<singleVars, timer>>

\* Enter without Shift, or a click on the send button.  The clock is read only
\* here: t is what the first Date.now() returns, at or after the last reading.
Submit ==
    /\ mounted
    /\ Len(reqs) < MaxSubmits
    /\ \E t \in now..MaxClock, d \in 0..1 :
         /\ t + d <= MaxClock
         /\ LET res == handleSubmit([App EXCEPT !.now = t], input, loading, d)
            IN /\ Commit(res.app)
               /\ input' = res.input
    /\ UNCHANGED <<singleVars, timer>>

\* The promise of request r settles and its continuation runs.
TransportSettle ==
    /\ \E r \in 1..Len(reqs) :
         /\ reqs[r].call = "pending"
         /\ \E resp \in Responses :
              Commit(handleSendMessageSettled(App, r, sendChatMessage(resp)))
    /\ UNCHANGED input
    /\ UNCHANGED <<singleVars, timer>>

\* The interval timer of request r fires.
IntervalTick ==
    /\ \E r \in 1..Len(reqs) :
         /\ reqs[r].interval = "running"
         /\ Commit(typingTick(App, r))
    /\ UNCHANGED input
    /\ UNCHANGED <<singleVars, timer>>

\* The clear button, rendered only when messages.length > 0.
ClearChat ==
    /\ mounted
    /\ Len(messages) > 0
    /\ Commit(handleClearChat(App))
    /\ UNCHANGED input
    /\ UNCHANGED <<singleVars, timer>>

\* <App/> is removed from the tree.
Unmount ==
    /\ mounted
    /\ Commit(unmountEffect(App))
    /\ UNCHANGED input
    /\ UNCHANGED <<singleVars, timer>>

Next ==
    \/ OnChange
    \/ Submit
    \/ TransportSettle
    \/ IntervalTick
    \/ ClearChat
    \/ Unmount

Spec == Init /\ [][Next]_vars

\* ------------------------------------------- the typing simulator by itself
\* simulateTyping(text, onProgress, onComplete) is called: the interval timer
\* is armed with index = 0.
StartTyping ==
    /\ timer.interval = "none"
    /\ \E text \in RevealTexts :
         timer' = [text |-> text, index |-> 0, interval |-> "running",
                   onProgressCalls |-> <<>>, onCompleteCalls |-> 0]
    /\ UNCHANGED <<chatVars, singleVars>>

\* The interval timer fires; the callbacks only record their calls.
TimerFire ==
    /\ timer.interval = "running"
    /\ LET s == simulateTyping(timer.text, timer.index)
       IN timer' =
            IF s.call = "onProgress"
            THEN [timer EXCEPT !.index = s.index,
                               !.onProgressCalls = Append(@, s.partial)]
            ELSE [timer EXCEPT !.interval = s.interval,
                               !.onCompleteCalls = @ + 1]
    /\ UNCHANGED <<chatVars, singleVars>>

\* The function simulateTyping returned is called: clearInterval(interval).
StopTyping ==
    /\ timer.interval = "running"
    /\ timer' = [timer EXCEPT !.interval = "stopped"]
    /\ UNCHANGED <<chatVars, singleVars>>

TypingNext ==
    \/ StartTyping
    \/ TimerFire
    \/ StopTyping

TypingSpec == Init /\ [][TypingNext]_vars

\* ----------------------------------------------- single-response controller
BackendUnreachableLongText == <<"[backend unreachable, check port 8000]">>

Single ==
    [response |-> response, input |-> input1, loading |-> loading1,
     calls |-> calls]

\* The body of the setInterval callback of the per-character simulateTyping.
simulateTypingChar(text, index) ==
    IF index < Len(text)
    THEN [call |-> "onChar", char |-> text[index + 1],
          index |-> index + 1, interval |-> "running"]
    ELSE [call |-> "none", char |-> "",
          index |-> index, interval |-> "cleared"]

\* handleSubmit of the single-response App up to its await.
handleSubmitSingle(app) ==
    IF trim(app.input) = <<>> THEN app
    ELSE [app EXCEPT
            !.loading = TRUE,
            !.response = <<>>,
            !.calls = Append(@, [query |-> app.input, call |-> "pending",
                                 fullAnswer |-> <<>>, index |-> 0,
                                 interval |-> "none"])]

\* The same handleSubmit call c from the point where its await settles.
handleSubmitSingleSettled(app, c, result) ==
    IF result.settled = "fulfilled"
    THEN [app EXCEPT
            !.calls[c].call = "fulfilled",
            !.calls[c].fullAnswer = result.value,
            !.calls[c].interval = "running",
            !.loading = FALSE]
    ELSE [app EXCEPT
            !.calls[c].call = "rejected",
            !.response = IF result.message # <<>> THEN result.message
                         ELSE BackendUnreachableLongText,
            !.loading = FALSE]

\* One firing of the interval timer of call c, with its onChar closure.
charTick(app, c) ==
    LET s == simulateTypingChar(app.calls[c].fullAnswer, app.calls[c].index)
    IN IF s.call = "onChar"
       THEN [app EXCEPT !.calls[c].index = s.index,
                        !.response = Append(@, s.char)]
       ELSE [app EXCEPT !.calls[c].interval = s.interval]

CommitSingle(app) ==
    /\ response' = app.response
    /\ input1' = app.input
    /\ loading1' = app.loading
    /\ calls' = app.calls

\* The textarea's onChange (this variant's textarea is never disabled).
OnInputChange ==
    /\ \E v \in Drafts : input1' = v
    /\ UNCHANGED <<response, loading1, calls>>
    /\ UNCHANGED <<chatVars, timer>>

\* The form is submitted through its button, which is disabled while loading.
SubmitForm ==
    /\ ~loading1
    /\ Len(calls) < MaxSubmits
    /\ CommitSingle(handleSubmitSingle(Single))
    /\ UNCHANGED <<chatVars, timer>>

SingleSettle ==
    /\ \E c \in 1..Len(calls) :
         /\ calls[c].call = "pending"
         /\ \E resp \in Responses :
              CommitSingle(
                handleSubmitSingleSettled(Single, c, sendChatMessage(resp)))
    /\ UNCHANGED <<chatVars, timer>>

SingleTick ==
    /\ \E c \in 1..Len(calls) :
         /\ calls[c].interval = "running"
         /\ CommitSingle(charTick(Single, c))
    /\ UNCHANGED <<chatVars, timer>>

SingleNext ==
    \/ OnInputChange
    \/ SubmitForm
    \/ SingleSettle
    \/ SingleTick

SingleSpec == Init /\ [][SingleNext]_vars

\* ================================================================== claims
Requests == 1..Len(reqs)
Revealing(r) == reqs[r].interval = "running"
InFlight(r) == reqs[r].call = "pending" \/ Revealing(r)
PlaceholderShows(msgs, r, content) ==
    \E i \in 1..Len(msgs) :
        /\ msgs[i].id = reqs[r].assistantMessageId
        /\ msgs[i].role = "assistant"
        /\ msgs[i].content = content

\* C1: while the view is mounted, loading is true as long as a request is in
\* flight, that is until its transport call has failed or the reveal of its
\* answer has completed: loading is never false while a reveal timer ticks.
C1_LoadingUntilRevealDone ==
    \A r \in Requests : (mounted /\ InFlight(r)) => loading

\* C2: at most one reveal timer is active at any time.
C2_AtMostOneReveal ==
    Cardinality({r \in Requests : Revealing(r)}) <= 1

\* C3: while loading is true a submit is a no-op, at the input control (whose
\* disabled prop is loading) and at the controller's own guard: conversation,
\* loading flag, requests and draft stay as they are, whatever was typed.
C3_SubmitWhileLoadingIsNoOp ==
    loading =>
      \A draft \in Drafts, d \in 0..1 :
        /\ handleSubmit(App, draft, loading, d) = [app |-> App, input |-> draft]
        /\ handleSendMessage(App, draft, d) = App

C3_Witness ==
    /\ mounted
    /\ loading
    /\ Len(reqs) = 1
    /\ reqs[1].call = "pending"
    /\ Len(messages) = 2

\* C4: when the reveal of a request whose transport call succeeded with text T
\* completes (the view still mounted), onComplete has fired exactly once and
\* the request's assistant placeholder shows exactly T, whatever the user did
\* in between.
C4_RevealEndsWithFullAnswer ==
    [][\A r \in Requests :
         (mounted' /\ reqs[r].interval = "running"
                   /\ reqs'[r].interval = "cleared")
           => /\ reqs'[r].onCompleteCalls = 1
              /\ PlaceholderShows(messages', r, reqs[r].fullAnswer)]_vars

\* C5: when the transport call of a request fails with detail D (the view still
\* mounted), the request's assistant placeholder shows exactly D, or the
\* default text when D is empty, no reveal was started, and the controller is
\* idle again.
C5_FailureShowsDetail ==
    [][\A r \in Requests :
         (mounted' /\ reqs[r].call = "pending" /\ reqs'[r].call = "rejected")
           => /\ PlaceholderShows(messages', r,
                    IF reqs'[r].error # <<>> THEN reqs'[r].error
                    ELSE BackendUnreachableText)
              /\ reqs'[r].interval = "none"
              /\ reqs'[r].onProgressCalls = <<>>
              /\ ~loading']_vars

\* C6: the conversation is emptied only while no request is in flight.
C6_ClearOnlyWhenIdle ==
    [][(Len(messages) > 0 /\ Len(messages') = 0)
         => \A r \in Requests : ~InFlight(r)]_vars

\* C7: a request whose AbortController was aborted by the teardown of the view
\* settles as a cancellation only, and no reveal timer is started for it.
C7_TeardownCancelsRequest ==
    \A r \in Requests :
        reqs[r].aborted
          => /\ reqs[r].call \in {"pending", "aborted"}
             /\ reqs[r].interval = "none"

\* C8: a step that accepts a submit (a new request starts) was taken from Idle
\* with a non-empty trimmed draft q and appends exactly a user message with
\* content q and then an assistant message with empty content, leaving every
\* earlier message where and as it was.
C8_SubmitAppendsUserThenPlaceholder ==
    [][Len(reqs') = Len(reqs) + 1
         => LET n == Len(messages)
                q == trim(input)
            IN /\ ~loading
               /\ q # <<>>
               /\ Len(messages') = n + 2
               /\ SubSeq(messages', 1, n) = messages
               /\ messages'[n + 1].role = "user"
               /\ messages'[n + 1].content = q
               /\ messages'[n + 2].role = "assistant"
               /\ messages'[n + 2].content = <<>>]_vars

C8_Witness ==
    /\ Len(reqs) = 2
    /\ Len(messages) = 4
    /\ messages[2].content # <<>>
    /\ messages[3].role = "user"
    /\ messages[4].role = "assistant"
    /\ messages[4].content = <<>>
    /\ reqs[2].call = "pending"

\* C9: a simulateTyping call on a text of length n calls onProgress with the
\* prefixes of length 1, 2, ..., n in this order, one per tick, and on the
\* tick after the last one clears its timer and calls onComplete once; nothing
\* is called after that, and for the empty text the first tick is that one.
C9_Calls ==
    LET n == Len(timer.text)
    IN /\ timer.index <= n
       /\ timer.onProgressCalls =
              [k \in 1..timer.index |-> SubSeq(timer.text, 1, k)]
       /\ timer.interval \in {"none", "running", "stopped"}
              => timer.onCompleteCalls = 0
       /\ timer.interval = "cleared"
              => timer.onCompleteCalls = 1 /\ timer.index = n

C9_Tick ==
    (timer.interval = "running" /\ timer' # timer
                                /\ timer'.interval # "stopped")
      => IF timer.index < Len(timer.text)
         THEN /\ timer'.interval = "running"
              /\ timer'.index = timer.index + 1
              /\ Len(timer'.onProgressCalls) = Len(timer.onProgressCalls) + 1
              /\ timer'.onCompleteCalls = 0
         ELSE /\ timer'.interval = "cleared"
              /\ timer'.onProgressCalls = timer.onProgressCalls
              /\ timer'.onCompleteCalls = 1

C9_RevealCallbacks == [](C9_Calls) /\ [][C9_Tick]_vars

C9_Witness ==
    /\ timer.interval = "cleared"
    /\ timer.text = <<"a", "b", "b">>
    /\ timer.onProgressCalls = <<<<"a">>, <<"a", "b">>, <<"a", "b", "b">>>>
    /\ timer.onCompleteCalls = 1

\* C10: in the single-response variant, once no transport call is outstanding
\* and every reveal timer has stopped, and the most recent submit succeeded
\* with text T, the displayed response is exactly T.
C10_ResponseIsLastAnswer ==
    ( /\ Len(calls) > 0
      /\ \A c \in 1..Len(calls) :
            calls[c].call # "pending" /\ calls[c].interval # "running"
      /\ calls[Len(calls)].call = "fulfilled" )
      => response = calls[Len(calls)].fullAnswer

\* C11: the ids of the messages in the conversation are pairwise distinct, so
\* that a write addressed by a placeholder's id reaches that message alone.
C11_MessageIdsDistinct ==
    \A i, j \in 1..Len(messages) :
        i # j => messages[i].id # messages[j].id

====
